---- MODULE Spec2Model ----
(***************************************************************************)
(* A model of the project-analyzer extension (src/extension.ts): the       *)
(* activation of the Gemini client, the analyzeProject command, the        *)
(* recursive traverseDirectory walk with its ignore filter, the per-file   *)
(* analyzeContent round trip, the aggregate analyzeProject round trip and  *)
(* the quality bucketing done by exportProjectInfo.                        *)
(*                                                                         *)
(* JavaScript runs each synchronous stretch of code to completion, so an   *)
(* action is one stretch of code between two suspension points (await /    *)
(* promise resolution); a loop iteration of traverseDirectory that does    *)
(* not suspend is a step of its own.                                       *)
(*                                                                         *)
(* The filesystem, the ignore predicate and the external service are the   *)
(* environment: what a listing, a stat, a read, isIgnored or a request     *)
(* yields is chosen when the code asks for it (every path is asked about   *)
(* at most once in a run) and is recorded in the variable env.             *)
(***************************************************************************)
EXTENDS Naturals, Sequences, FiniteSets

\* Bound: the number of directory entries that the listings of one run may
\* return in total.
MaxEntries == 3

\* Entry names a directory listing may contain.
Names == {"main.RS", "lib"}

\* File contents (sequences of characters) a successful read may return.
Contents == {<<"a", "\n", "b">>}

\* Ratings the external service may put in its JSON answer.
Ratings == {3, 4, 7, 8}

VARIABLES
    genAI,            \* module-level genAI: TRUE when set (truthy)
    model,            \* module-level model: TRUE when set (truthy)
    pc,               \* where the command handler's chain of promises stands
    projectInfo,      \* the ProjectInfo accumulator of the run
    stack,            \* the traverseDirectory activations: [dir, entries, i]
    inflight,         \* the generateContent requests issued and not yet settled
    requests,         \* the number of generateContent calls made so far
    projectAnalysis,  \* what analyzeProject resolved to
    filesByQuality,   \* the three buckets built by exportProjectInfo
    env               \* what the environment has answered so far (history)

vars == <<genAI, model, pc, projectInfo, stack, inflight, requests,
          projectAnalysis, filesByQuality, env>>

-----------------------------------------------------------------------------
(* JavaScript values: a value is tagged with its typeof.                   *)

Str(s) == [type |-> "string", o |-> [s |-> s]]
Obj(o) == [type |-> "object", o |-> o]
Null == [type |-> "null", o |-> [n |-> 0]]

\* v.f : undefined (modelled as "absent") unless v is an object with field f.
HasProp(v, f) == v.type = "object" /\ f \in DOMAIN v.o

\* (v.f || d) for a number-valued field: undefined and 0 are falsy.
PropOrNum(v, f, d) == IF HasProp(v, f) /\ v.o[f] # 0 THEN v.o[f] ELSE d

\* (v.f || d) for a string-valued field: undefined and "" are falsy.
PropOrStr(v, f, d) == IF HasProp(v, f) /\ v.o[f] # "" THEN v.o[f] ELSE d

-----------------------------------------------------------------------------
(* Response texts: a text is a sequence of tokens; a token is the fence    *)
(* opener (three backquotes and json), a bare fence, a JSON value, or prose *)

FenceJson == [t |-> "fence-json", v |-> Null]
Fence == [t |-> "fence", v |-> Null]
Prose == [t |-> "prose", v |-> Null]
Json(v) == [t |-> "json", v |-> v]

\* responseText.includes(fence opener)
IncludesFenceJson(text) == \E i \in 1..Len(text) : text[i] = FenceJson

\* The least index of a token of text that is in tokens, or Len + 1.
FirstIndex(text, tokens) ==
    IF \E i \in 1..Len(text) : text[i] \in tokens
    THEN CHOOSE i \in 1..Len(text) :
            /\ text[i] \in tokens
            /\ \A j \in 1..(i - 1) : text[j] \notin tokens
    ELSE Len(text) + 1

\* The opener begins with a bare fence, so either token ends a piece of the
\* split on the bare fence.
AnyFence == {Fence, FenceJson}

\* responseText.split(opener)[1].split(fence)[0].trim()
StripFence(text) ==
    LET open == FirstIndex(text, {FenceJson})
        rest == SubSeq(text, open + 1, Len(text))
        close == FirstIndex(rest, AnyFence)
    IN SubSeq(rest, 1, close - 1)

\* let jsonStr = responseText; if (includes) jsonStr = ...
JsonStr(text) == IF IncludesFenceJson(text) THEN StripFence(text) ELSE text

\* JSON.parse succeeds exactly on a text that is one JSON value.
Parses(jsonStr) == Len(jsonStr) = 1 /\ jsonStr[1].t = "json"
JsonParse(jsonStr) == jsonStr[1].v

-----------------------------------------------------------------------------
(* analyzeContent, from the settled request to its return value.           *)

FailureAnalysis(explanation) ==
    Obj([rating |-> 0, complexity |-> "N/A", explanation |-> explanation,
         suggestions |-> ""])

NotInitialized == Str("Gemini API or model not initialized.")
ErrorProcessingFile == FailureAnalysis("Error processing file")

\* An outcome of model.generateContent: [kind |-> "text", text |-> ...] a
\* response with text, "notext" a response without candidates, "error" a
\* rejection with an Error object, "nullish" a rejection with null/undefined.
FileAnswer(r) ==
    Obj([rating |-> r, complexity |-> "O(n)", explanation |-> "fine",
         suggestions |-> "none"])

FileTexts ==
    {<<Json(FileAnswer(r))>> : r \in Ratings}
    \cup {<<FenceJson, Json(FileAnswer(r)), Fence>> : r \in Ratings}
    \cup {<<Prose, FenceJson, Json(FileAnswer(r)), Fence, Prose>> : r \in Ratings}
    \cup {<<FenceJson, Json(FileAnswer(r))>> : r \in Ratings}
    \cup {<<Prose, Json(FileAnswer(r))>> : r \in Ratings}
    \cup { << >>, <<Prose>>, <<Json(Null)>>, <<FenceJson, Fence>>,
           <<Json(Obj([explanation |-> ""]))>> }

Outcome(kind, text) == [kind |-> kind, text |-> text]

FileOutcomes ==
    {Outcome("text", t) : t \in FileTexts}
    \cup {Outcome("notext", << >>), Outcome("error", << >>),
          Outcome("nullish", << >>)}

\* Lines 64-106: the value analyzeContent resolves to, or "throws" when the
\* catch block itself raises (error.message of a nullish error).
AnalyzeContentThrows(out) == out.kind = "nullish"

AnalyzeContentResult(out) ==
    IF out.kind = "error"
    THEN FailureAnalysis("Error calling Gemini API: ...")
    ELSE IF out.kind = "notext" \/ out.text = << >>
    THEN FailureAnalysis("No response from Gemini API.")
    ELSE IF Parses(JsonStr(out.text)) /\ JsonParse(JsonStr(out.text)).type # "null"
    THEN LET jsonResponse == JsonParse(JsonStr(out.text))
         IN Obj([rating |-> PropOrNum(jsonResponse, "rating", 0),
                 complexity |-> PropOrStr(jsonResponse, "complexity", "O(1)"),
                 explanation |-> PropOrStr(jsonResponse, "explanation", ""),
                 suggestions |-> PropOrStr(jsonResponse, "suggestions", "")])
    ELSE FailureAnalysis("Error parsing response: ...")

-----------------------------------------------------------------------------
(* analyzeProject, from the settled request to its return value.           *)

FailureProject(strengths) ==
    Obj([overall_rating |-> 0, complexity_assessment |-> "N/A",
         project_strengths |-> strengths, project_weaknesses |-> "",
         recommendations |-> ""])

ProjectAnswer ==
    Obj([overall_rating |-> 7, complexity_assessment |-> "moderate",
         project_strengths |-> "s", project_weaknesses |-> "w",
         recommendations |-> "r"])

ProjectTexts ==
    { <<Json(ProjectAnswer)>>, <<FenceJson, Json(ProjectAnswer), Fence>>,
      <<Prose, Json(ProjectAnswer)>>, <<Prose>>, << >>,
      <<Json(Null)>>, <<Prose, FenceJson, Json(Null), Fence>> }

ProjectOutcomes ==
    {Outcome("text", t) : t \in ProjectTexts}
    \cup {Outcome("notext", << >>), Outcome("error", << >>),
          Outcome("nullish", << >>)}

\* Lines 266-275: the catch block raises on a nullish error.
AnalyzeProjectThrows(out) == out.kind = "nullish"

\* Lines 232-275: JSON.parse's value is returned as it is.
AnalyzeProjectResult(out) ==
    IF out.kind = "error"
    THEN FailureProject("Error calling Gemini API: ...")
    ELSE IF out.kind = "notext" \/ out.text = << >>
    THEN FailureProject("No response from Gemini API.")
    ELSE IF Parses(JsonStr(out.text))
    THEN JsonParse(JsonStr(out.text))
    ELSE FailureProject("Error parsing response: ...")

-----------------------------------------------------------------------------
(* countLines and getLanguage.                                             *)

\* fileContent.split('\n').length: one more than the number of separators.
SplitLength(fileContent) ==
    Cardinality({i \in 1..Len(fileContent) : fileContent[i] = "\n"}) + 1

\* countLines: readOk = FALSE is a read that raises, caught inside countLines.
countLines(readOk, fileContent) ==
    IF readOk THEN SplitLength(fileContent) ELSE 0

\* path.extname of the names the model uses.
ExtName(name) ==
    CASE name = "main.RS" -> ".RS"
      [] OTHER -> ""

ToLowerCase(ext) == CASE ext = ".RS" -> ".rs" [] OTHER -> ext

getLanguage(name) ==
    LET extension == ToLowerCase(ExtName(name))
    IN CASE extension = ".js" -> "JavaScript"
         [] extension = ".ts" -> "TypeScript"
         [] extension = ".html" -> "HTML"
         [] extension = ".css" -> "CSS"
         [] extension = ".py" -> "Python"
         [] extension = ".java" -> "Java"
         [] extension = ".c" -> "C"
         [] extension = ".cpp" -> "C++"
         [] extension = ".go" -> "Go"
         [] extension = ".rs" -> "Rust"
         [] extension = ".php" -> "PHP"
         [] extension = ".rb" -> "Ruby"
         [] extension = ".swift" -> "Swift"
         [] extension = ".kt" -> "Kotlin"
         [] extension = ".sh" -> "Shell Script"
         [] extension = ".md" -> "Markdown"
         [] extension = ".json" -> "JSON"
         [] extension = ".xml" -> "XML"
         [] extension = ".yaml" -> "YAML"
         [] extension = ".yml" -> "YAML"
         [] extension = ".tsx" -> "TypeScriptReact"
         [] extension = ".jsx" -> "JavaScriptReact"
         [] OTHER -> "Unknown"

\* Mutant: the counter is set to 1 instead of being incremented.
CountLanguageResets(languages, language) ==
    [l \in DOMAIN languages \cup {language} |->
        IF l = language THEN 1 ELSE languages[l]]

\* projectInfo.languages[language] = (projectInfo.languages[language] || 0) + 1
CountLanguage(languages, language) ==
    [l \in DOMAIN languages \cup {language} |->
        IF l = language
        THEN (IF l \in DOMAIN languages THEN languages[l] ELSE 0) + 1
        ELSE languages[l]]

-----------------------------------------------------------------------------
(* The aiRatings object: its entries in insertion order.                   *)

Keys(aiRatings) == {aiRatings[i].key : i \in 1..Len(aiRatings)}

\* aiRatings[key] = value: a new key is appended, a known key keeps its place.
SetRating(aiRatings, key, value) ==
    IF key \in Keys(aiRatings)
    THEN [i \in 1..Len(aiRatings) |->
            IF aiRatings[i].key = key
            THEN [key |-> key, value |-> value] ELSE aiRatings[i]]
    ELSE Append(aiRatings, [key |-> key, value |-> value])

Range(s) == {s[i] : i \in 1..Len(s)}

-----------------------------------------------------------------------------
(* exportProjectInfo: the three quality buckets (lines 328-348).           *)

EmptyBuckets == [high |-> << >>, medium |-> << >>, low |-> << >>]

\* const fileInfo = { name, rating: rating.rating || 0, complexity: ... }
FileInfo(entry) ==
    [name |-> entry.key,
     rating |-> PropOrNum(entry.value, "rating", 0),
     complexity |-> PropOrStr(entry.value, "complexity", "O(1)")]

\* Mutant: the thresholds are compared strictly.
QualityStrict(rating) ==
    IF rating > 8 THEN "high" ELSE IF rating > 4 THEN "medium" ELSE "low"

\* if (rating >= 8) high  else if (rating >= 4) medium  else low
Quality(rating) ==
    IF rating >= 8 THEN "high" ELSE IF rating >= 4 THEN "medium" ELSE "low"

PushBucket(buckets, fileInfo) ==
    [buckets EXCEPT ![Quality(fileInfo.rating)] = Append(@, fileInfo)]

\* Object.entries(projectInfo.aiRatings).forEach(...)
RECURSIVE GroupByQuality(_, _)
GroupByQuality(entries, buckets) ==
    IF entries = << >> THEN buckets
    ELSE GroupByQuality(Tail(entries), PushBucket(buckets, FileInfo(Head(entries))))

-----------------------------------------------------------------------------
(* The state machine.                                                      *)

EmptyProjectInfo ==
    [fileCount |-> 0, directoryCount |-> 0, totalLines |-> 0,
     languages |-> << >>, files |-> << >>, aiRatings |-> << >>]

EmptyEnv ==
    [listed |-> {},      \* paths some listing returned
     visited |-> {},     \* paths the loop of traverseDirectory has examined
     ignored |-> {},     \* examined paths for which isIgnored answered true
     dirs |-> {},        \* examined paths that are directories
     regular |-> {},     \* examined paths that are regular files
     unreadable |-> {},  \* files whose read at line 185 raised
     raised |-> {},      \* files whose read or analysis raised into line 188
     failed |-> {},      \* files whose analysis ended in a failure
     escaped |-> "none"] \* where an error escaped every handler

NoAnalysis == FailureProject("")

Init ==
    /\ genAI = FALSE
    /\ model = FALSE
    /\ pc = "inactive"
    /\ projectInfo = EmptyProjectInfo
    /\ stack = << >>
    /\ inflight = {}
    /\ requests = 0
    /\ projectAnalysis = NoAnalysis
    /\ filesByQuality = EmptyBuckets
    /\ env = EmptyEnv

\* What the entry is, whether or not the code looks: a directory, a regular
\* file, or something else.
Observe(e, path, kind) ==
    [e EXCEPT !.visited = @ \cup {path},
              !.dirs = IF kind = "dir" THEN @ \cup {path} ELSE @,
              !.regular = IF kind = "file" THEN @ \cup {path} ELSE @]

\* The listings fs.readdirSync may return: distinct names, at most n of them.
Listings(n) ==
    {l \in UNION {[1..k -> Names] : k \in 0..n} :
        \A i, j \in 1..Len(l) : l[i] = l[j] => i = j}

Min(a, b) == IF a < b THEN a ELSE b

Top == stack[Len(stack)]
relativePath == Append(Top.dir, Top.entries[Top.i])
Advance(stk) == [stk EXCEPT ![Len(stk)].i = @ + 1]
AtEntry == pc = "traverse" /\ stack # << >> /\ Top.i <= Len(Top.entries)

\* Mutant: the guard of lines 40 and 197 is missing.
ServiceAssumed == TRUE

\* Lines 40 and 197: !(!genAI || !model)
ServiceReady == genAI /\ model

\* Lines 383-409: the client is constructed, or its construction raises and
\* genAI and model stay unset.
Activate ==
    /\ pc = "inactive"
    /\ pc' = "idle"
    /\ \E ok \in BOOLEAN : genAI' = ok /\ model' = ok
    /\ UNCHANGED <<projectInfo, stack, inflight, requests, projectAnalysis,
                   filesByQuality, env>>

\* Line 164, const entries = fs.readdirSync(dir), on entering traverseDirectory
\* with the activations stk and the history e.
EnterDirectory(dir, stk, e) ==
    \/ /\ pc' = "rejected"
       /\ stack' = stk
       /\ env' = [e EXCEPT !.escaped = "readdir"]
    \/ \E entries \in Listings(Min(Cardinality(Names),
                                   MaxEntries - Cardinality(e.listed))) :
          /\ pc' = "traverse"
          /\ stack' = Append(stk, [dir |-> dir, entries |-> entries, i |-> 1])
          /\ env' = [e EXCEPT !.listed =
                        @ \cup {Append(dir, entries[k]) : k \in 1..Len(entries)}]

\* Lines 411-432: the command handler up to the first listing.
AnalyzeProjectCommand ==
    /\ pc = "idle"
    /\ \/ /\ pc' = "noWorkspace"
          /\ UNCHANGED <<projectInfo, stack, env>>
       \/ /\ projectInfo' = EmptyProjectInfo
          /\ EnterDirectory(<< >>, << >>, env)
    /\ UNCHANGED <<genAI, model, inflight, requests, projectAnalysis,
                   filesByQuality>>

\* Mutant: the ignore test is made for files only, after the stat, so an
\* ignored directory is counted and entered.
SkipIgnoredFilesOnly ==
    /\ AtEntry
    /\ \E kind \in {"dir", "other"} :
        LET seen == [Observe(env, relativePath, kind) EXCEPT
                        !.ignored = @ \cup {relativePath}]
        IN IF kind = "dir"
           THEN /\ projectInfo' = [projectInfo EXCEPT !.directoryCount = @ + 1]
                /\ EnterDirectory(relativePath, Advance(stack), seen)
           ELSE /\ env' = seen
                /\ stack' = Advance(stack)
                /\ UNCHANGED <<pc, projectInfo>>
    /\ UNCHANGED <<genAI, model, inflight, requests, projectAnalysis,
                   filesByQuality>>

\* Line 170: if (isIgnored(relativePath)) continue;
SkipIgnored ==
    /\ AtEntry
    /\ \E kind \in {"dir", "other"} :
          env' = [Observe(env, relativePath, kind) EXCEPT
                     !.ignored = @ \cup {relativePath}]
    /\ stack' = Advance(stack)
    /\ UNCHANGED <<genAI, model, pc, projectInfo, inflight, requests,
                   projectAnalysis, filesByQuality>>

\* Line 172: fs.statSync raises (a dangling link, a vanished entry).
StatRaises ==
    /\ AtEntry
    /\ pc' = "rejected"
    /\ env' = [env EXCEPT !.visited = @ \cup {relativePath},
                          !.escaped = "stat"]
    /\ UNCHANGED <<genAI, model, projectInfo, stack, inflight, requests,
                   projectAnalysis, filesByQuality>>

\* Lines 174-176: a directory is counted and entered.
VisitDirectory ==
    /\ AtEntry
    /\ projectInfo' = [projectInfo EXCEPT !.directoryCount = @ + 1]
    /\ EnterDirectory(relativePath, Advance(stack),
                      Observe(env, relativePath, "dir"))
    /\ UNCHANGED <<genAI, model, inflight, requests, projectAnalysis,
                   filesByQuality>>

\* Neither a directory nor a regular file: nothing is done with the entry.
SkipOther ==
    /\ AtEntry
    /\ stack' = Advance(stack)
    /\ env' = Observe(env, relativePath, "other")
    /\ UNCHANGED <<genAI, model, pc, projectInfo, inflight, requests,
                   projectAnalysis, filesByQuality>>

\* Lines 178-182: the tallies of a regular file.
Tally(info, path, lines) ==
    [info EXCEPT !.fileCount = @ + 1,
                 !.languages = CountLanguage(@, getLanguage(path[Len(path)])),
                 !.totalLines = @ + lines,
                 !.files = Append(@, path)]

\* Mutant: the catch block only logs.
CatchOnlyLogs(info, path) == info

\* Lines 188-190: the catch block of traverseDirectory.
CatchProcessing(info, path) ==
    [info EXCEPT !.aiRatings = SetRating(@, path, ErrorProcessingFile)]

\* Mutant: the read is outside the try block, so its error escapes.
ReadRaisesEscapes(tallied, seen) ==
    /\ projectInfo' = tallied
    /\ pc' = "rejected"
    /\ env' = [seen EXCEPT !.unreadable = @ \cup {relativePath},
                           !.raised = @ \cup {relativePath},
                           !.failed = @ \cup {relativePath},
                           !.escaped = "read"]
    /\ UNCHANGED <<stack, inflight, requests>>

\* Lines 184-185, 188-191: fs.readFileSync raises inside the try block; the
\* default is stored and the loop goes on with the next entry.
ReadRaises(tallied, seen) ==
    /\ projectInfo' = CatchProcessing(tallied, relativePath)
    /\ stack' = Advance(stack)
    /\ env' = [seen EXCEPT !.unreadable = @ \cup {relativePath},
                           !.raised = @ \cup {relativePath},
                           !.failed = @ \cup {relativePath}]
    /\ UNCHANGED <<pc, inflight, requests>>

\* Lines 65-67 and 233-235: model.generateContent is called.
GenerateContent(request) ==
    /\ requests' = requests + 1
    /\ inflight' = inflight \cup {request}

\* Mutant: analyzeContent is called without await; the pending promise is
\* stored and the loop goes on while the request is in flight.
CallWithoutAwait(tallied, seen) ==
    /\ projectInfo' = [tallied EXCEPT !.aiRatings =
                          SetRating(@, relativePath, Obj([pending |-> TRUE]))]
    /\ env' = seen
    /\ stack' = Advance(stack)
    /\ UNCHANGED pc
    /\ IF ServiceReady
       THEN GenerateContent([kind |-> "file", path |-> relativePath])
       ELSE UNCHANGED <<inflight, requests>>

\* Lines 186, 38-67: analyzeContent runs up to its return (service not ready)
\* or up to its await of the request; traverseDirectory awaits its promise.
AwaitAnalyzeContent(tallied, seen) ==
    /\ projectInfo' = tallied
    /\ pc' = "awaitAnalysis"
    /\ env' = seen
    /\ stack' = stack
    /\ IF ServiceReady
       THEN GenerateContent([kind |-> "file", path |-> relativePath])
       ELSE UNCHANGED <<inflight, requests>>

\* Lines 177-186: a regular file is tallied (countLines reads it and counts,
\* or catches its own read error) and read again for the analysis.
VisitFile ==
    /\ AtEntry
    /\ \E counted \in BOOLEAN, content \in Contents, readOk \in BOOLEAN :
        LET tallied == Tally(projectInfo, relativePath,
                             countLines(counted, content))
            seen == Observe(env, relativePath, "file")
        IN IF readOk
           THEN AwaitAnalyzeContent(tallied, seen)
           ELSE ReadRaises(tallied, seen)
    /\ UNCHANGED <<genAI, model, projectAnalysis, filesByQuality>>

\* A settled request that leaves analyzeContent without a real analysis.
AnalysisFailed(out) ==
    \/ out.kind # "text"
    \/ out.text = << >>
    \/ ~Parses(JsonStr(out.text))
    \/ JsonParse(JsonStr(out.text)).type = "null"

\* Lines 186-191: what is stored for a file whose request settled with out.
Stored(out) ==
    IF AnalyzeContentThrows(out) THEN ErrorProcessingFile
    ELSE AnalyzeContentResult(out)

\* Line 187 or 190, then the next iteration: the value is stored under
\* relativePath and the loop goes on.
StoreAndContinue(value, failed, raised) ==
    /\ projectInfo' = [projectInfo EXCEPT !.aiRatings =
                          SetRating(@, relativePath, value)]
    /\ env' = [env EXCEPT
                  !.failed = IF failed THEN @ \cup {relativePath} ELSE @,
                  !.raised = IF raised THEN @ \cup {relativePath} ELSE @]
    /\ inflight' = {}
    /\ stack' = Advance(stack)
    /\ pc' = "traverse"
    /\ UNCHANGED requests

\* Mutant: a request that raised is issued again.
SettledWithRetry(out) ==
    IF out.kind = "error"
    THEN /\ requests' = requests + 1
         /\ UNCHANGED <<projectInfo, env, inflight, stack, pc>>
    ELSE StoreAndContinue(Stored(out), AnalysisFailed(out),
                          AnalyzeContentThrows(out))

\* Lines 68-106, 187-191: the request settled with out; one attempt only.
Settled(out) ==
    StoreAndContinue(Stored(out), AnalysisFailed(out),
                     AnalyzeContentThrows(out))

\* Lines 186-187 after the await: analyzeContent's promise settles and its
\* value (or the catch block's default) is stored under relativePath.
ResumeAnalysis ==
    /\ pc = "awaitAnalysis"
    /\ IF inflight = {}
       THEN StoreAndContinue(NotInitialized, TRUE, FALSE)
       ELSE \E out \in FileOutcomes : Settled(out)
    /\ UNCHANGED <<genAI, model, projectAnalysis, filesByQuality>>

\* Line 193-194: the loop is over and the activation returns; the return of
\* the outermost one resolves the promise awaited at line 432.
ReturnFromDirectory ==
    /\ pc = "traverse"
    /\ stack # << >>
    /\ Top.i > Len(Top.entries)
    /\ stack' = SubSeq(stack, 1, Len(stack) - 1)
    /\ pc' = IF Len(stack) = 1 THEN "traversed" ELSE "traverse"
    /\ UNCHANGED <<genAI, model, projectInfo, inflight, requests,
                   projectAnalysis, filesByQuality, env>>

\* Lines 434, 278-283, 196-235: exportProjectInfo calls analyzeProject, which
\* returns the failure value at once or issues the aggregate request.
ExportProjectInfo ==
    /\ pc = "traversed"
    /\ pc' = "awaitProject"
    /\ IF ServiceReady
       THEN GenerateContent([kind |-> "project", path |-> << >>])
       ELSE UNCHANGED <<inflight, requests>>
    /\ UNCHANGED <<genAI, model, projectInfo, stack, projectAnalysis,
                   filesByQuality, env>>

\* Lines 284-379: the callback of then. Reading projectAnalysis.overall_rating
\* (line 300) raises when analyzeProject resolved to null.
Render(analysis) ==
    IF analysis.type = "null"
    THEN /\ pc' = "rejected"
         /\ env' = [env EXCEPT !.escaped = "render"]
         /\ UNCHANGED filesByQuality
    ELSE /\ pc' = "done"
         /\ filesByQuality' = GroupByQuality(projectInfo.aiRatings, EmptyBuckets)
         /\ UNCHANGED env

\* Lines 236-275 and 283: analyzeProject's promise settles; fulfilled, the
\* report is rendered; rejected, nothing handles the rejection.
ResumeProject ==
    /\ pc = "awaitProject"
    /\ IF inflight = {}
       THEN /\ projectAnalysis' =
                  FailureProject("Gemini API or model not initialized.")
            /\ Render(projectAnalysis')
       ELSE \E out \in ProjectOutcomes :
              IF AnalyzeProjectThrows(out)
              THEN /\ pc' = "rejected"
                   /\ env' = [env EXCEPT !.escaped = "analyzeProject"]
                   /\ UNCHANGED <<projectAnalysis, filesByQuality>>
              ELSE /\ projectAnalysis' = AnalyzeProjectResult(out)
                   /\ Render(projectAnalysis')
    /\ inflight' = {}
    /\ UNCHANGED <<genAI, model, projectInfo, stack, requests>>

Next ==
    \/ Activate
    \/ AnalyzeProjectCommand
    \/ SkipIgnored
    \/ StatRaises
    \/ VisitDirectory
    \/ SkipOther
    \/ VisitFile
    \/ ResumeAnalysis
    \/ ReturnFromDirectory
    \/ ExportProjectInfo
    \/ ResumeProject

Spec == Init /\ [][Next]_vars

-----------------------------------------------------------------------------
(* Properties.                                                             *)

files == projectInfo.files
aiRatings == projectInfo.aiRatings

\* traverseDirectory(rootPath, ...) has returned to the command handler.
Returned ==
    \/ pc \in {"traversed", "awaitProject", "done"}
    \/ pc = "rejected" /\ env.escaped \in {"analyzeProject", "render"}

\* d is a proper ancestor of p.
Beneath(p, d) == Len(d) < Len(p) /\ SubSeq(p, 1, Len(d)) = d

ValueAt(key) ==
    (CHOOSE i \in 1..Len(aiRatings) : aiRatings[i].key = key) (* index *)

StoredFor(key) == aiRatings[ValueAt(key)].value

\* C1: when traverseDirectory has returned, the relative paths in files are
\* exactly the keys of aiRatings, and each has one entry.
C1_Lockstep ==
    Returned =>
        /\ Range(files) = Keys(aiRatings)
        /\ Len(aiRatings) = Cardinality(Keys(aiRatings))
        /\ Len(files) = Len(aiRatings)

\* C1 witness: the walk returned with two files, one whose read raised (its
\* entry is the default) and one with a real analysis.
C1_Witness ==
    /\ Returned
    /\ Len(files) = 2
    /\ env.unreadable # {}
    /\ \E p \in Range(files) : p \notin env.failed

\* C2: an ignored directory is never entered: nothing beneath it is listed,
\* pushed to files, keyed in aiRatings or requested, no activation of
\* traverseDirectory runs in or beneath it, and directoryCount counts exactly
\* the directories that are not ignored.
C2_IgnoredPruned ==
    /\ \A d \in env.ignored :
          /\ \A p \in env.listed \cup Range(files) \cup Keys(aiRatings)
                      \cup {r.path : r \in inflight} : ~Beneath(p, d)
          /\ \A k \in 1..Len(stack) :
                stack[k].dir # d /\ ~Beneath(stack[k].dir, d)
    /\ projectInfo.directoryCount = Cardinality(env.dirs \ env.ignored)
    /\ \A r \in inflight : r.kind = "file" => r.path \in Range(files)

\* C2 witness: an ignored directory was skipped and the run went on to
\* analyze a file and to finish.
C2_Witness ==
    /\ pc = "done"
    /\ env.ignored \cap env.dirs # {}
    /\ Len(files) >= 1
    /\ projectInfo.directoryCount >= 1

\* C3: a step in which the read or the analysis of a file raises stores the
\* default analysis under that file's path and leaves the walk running with
\* the same pending entries; and when the walk returns, every listed entry
\* has been visited and every regular file that is not ignored is in files
\* with an entry in aiRatings.
C3_FileFailureContinues ==
    [][ /\ \A p \in env'.raised \ env.raised :
              /\ p \in Keys(aiRatings')
              /\ (aiRatings')[CHOOSE i \in 1..Len(aiRatings') :
                                 (aiRatings')[i].key = p].value
                    = ErrorProcessingFile
              /\ pc' = "traverse"
              /\ stack' = Advance(stack)
        /\ Returned' =>
              /\ env'.visited = env'.listed
              /\ env'.regular \ env'.ignored \subseteq Range(files')
              /\ env'.regular \ env'.ignored \subseteq Keys(aiRatings')
      ]_vars

\* C3 witness: the run finished, a file's processing raised, and a file
\* visited after it got a real analysis.
C3_Witness ==
    /\ pc = "done"
    /\ Len(files) = 2
    /\ files[1] \in env.raised
    /\ files[2] \notin env.failed
    /\ StoredFor(files[1]) = ErrorProcessingFile

\* C4: while the service handle is unset no request is ever issued, every
\* stored analysis is a failure value, and so is the project analysis.
C4_NoRequestWhenUnset ==
    ~(genAI /\ model) =>
        /\ requests = 0
        /\ inflight = {}
        /\ \A i \in 1..Len(aiRatings) :
              aiRatings[i].value \in {NotInitialized, ErrorProcessingFile}
        /\ pc = "done" =>
              projectAnalysis =
                  FailureProject("Gemini API or model not initialized.")

\* C4 witness: a whole run with two files finished with the handle unset.
C4_Witness ==
    /\ ~(genAI /\ model)
    /\ pc = "done"
    /\ Len(files) = 2
    /\ \E i \in 1..2 : aiRatings[i].value = NotInitialized

\* C5 as stated: with the service initialized, when the report is produced
\* the number of requests is fileCount + 1.
C5_OneRequestPerFile ==
    (pc = "done" /\ genAI /\ model) => requests = projectInfo.fileCount + 1

\* C5 amended: one request per file whose read succeeded, none for a file
\* whose read raised, and one aggregate request.
C5_OneRequestPerReadFile ==
    (pc = "done" /\ genAI /\ model) =>
        /\ requests + Cardinality(env.unreadable) = projectInfo.fileCount + 1
        /\ requests = Cardinality(Range(files) \ env.unreadable) + 1

\* C5 witness: a finished run with the service initialized, one file read and
\* requested (the request raised) and one file whose read raised.
C5_Witness ==
    /\ pc = "done" /\ genAI /\ model
    /\ projectInfo.fileCount = 2
    /\ Cardinality(env.unreadable) = 1
    /\ \E p \in Range(files) :
          /\ p \notin env.unreadable
          /\ p \in env.failed

\* C6: at most one request is in flight; while a file's request is in flight
\* the walk is suspended on it, the file is the last of files and every
\* earlier file has its analysis stored; while the aggregate request is in
\* flight the walk has returned and every file has its analysis stored.
C6_Sequential ==
    /\ Cardinality(inflight) <= 1
    /\ \A r \in inflight :
          IF r.kind = "file"
          THEN /\ pc = "awaitAnalysis"
               /\ files # << >>
               /\ r.path = files[Len(files)]
               /\ Keys(aiRatings) = {files[i] : i \in 1..(Len(files) - 1)}
          ELSE /\ pc = "awaitProject"
               /\ stack = << >>
               /\ Keys(aiRatings) = Range(files)

\* C6 witness: the second file's request is in flight and the first file's
\* analysis, obtained from the service, is stored.
C6_Witness ==
    /\ \E r \in inflight : r.kind = "file"
    /\ Len(files) = 2
    /\ Len(aiRatings) = 1
    /\ requests = 2

\* C6 witness (aggregate): the aggregate request is in flight after two files.
C6_WitnessAggregate ==
    /\ \E r \in inflight : r.kind = "project"
    /\ Len(aiRatings) = 2

\* The command handler was started with a workspace open.
RunStarted ==
    pc \in {"traverse", "awaitAnalysis", "traversed", "awaitProject", "done",
            "rejected"}

\* C7: a run started with a workspace open never stops before the report is
\* complete: it is done or it has a step to take, and no error escapes.
C7_RunProducesReport ==
    RunStarted => (pc = "done" \/ (pc # "rejected" /\ ENABLED Next))

FileAnalysisFields == {"rating", "complexity", "explanation", "suggestions"}

\* C8: every value stored in aiRatings is a record with the four fields of
\* FileAnalysis, and the record of a file whose analysis failed has rating 0
\* and complexity "N/A".
C8_StoredIsFileAnalysis ==
    \A i \in 1..Len(aiRatings) :
        LET v == aiRatings[i].value
        IN /\ v.type = "object"
           /\ DOMAIN v.o = FileAnalysisFields
           /\ aiRatings[i].key \in env.failed =>
                 (v.o.rating = 0 /\ v.o.complexity = "N/A")

\* The rating the report reads from a stored value (absent reads as 0).
RatingOf(value) ==
    IF value.type = "object" /\ "rating" \in DOMAIN value.o
    THEN value.o.rating ELSE 0

InHigh(e) == RatingOf(e.value) >= 8
InMedium(e) == RatingOf(e.value) >= 4 /\ RatingOf(e.value) < 8
InLow(e) == RatingOf(e.value) < 4

BucketNames(bucket) == [i \in 1..Len(bucket) |-> bucket[i].name]
EntryKeys(entries) == [i \in 1..Len(entries) |-> entries[i].key]

\* C9: in the finished report the buckets partition the keys of aiRatings by
\* rating (>= 8 high, 4..7 medium, < 4 low), each bucket in the order of
\* aiRatings, each file shown with its rating.
C9_BucketsPartition ==
    pc = "done" =>
        /\ BucketNames(filesByQuality.high) = EntryKeys(SelectSeq(aiRatings, InHigh))
        /\ BucketNames(filesByQuality.medium) = EntryKeys(SelectSeq(aiRatings, InMedium))
        /\ BucketNames(filesByQuality.low) = EntryKeys(SelectSeq(aiRatings, InLow))
        /\ Len(filesByQuality.high) + Len(filesByQuality.medium)
              + Len(filesByQuality.low) = Len(aiRatings)
        /\ \A q \in {"high", "medium", "low"} :
              \A i \in 1..Len(filesByQuality[q]) :
                 filesByQuality[q][i].rating =
                     RatingOf(StoredFor(filesByQuality[q][i].name))

\* C9 witness: a report with rating 8 in high and rating 4 in medium.
C9_Witness ==
    /\ pc = "done"
    /\ Len(filesByQuality.high) = 1 /\ filesByQuality.high[1].rating = 8
    /\ Len(filesByQuality.medium) = 1 /\ filesByQuality.medium[1].rating = 4

\* C9 witness (order, failure default): two files in low, in aiRatings order,
\* the first a failure default.
C9_WitnessLow ==
    /\ pc = "done"
    /\ Len(filesByQuality.low) = 2
    /\ filesByQuality.low[1].rating = 0
    /\ filesByQuality.low[2].rating = 3

RECURSIVE SumOver(_, _)
SumOver(f, keys) ==
    IF keys = {} THEN 0
    ELSE LET k == CHOOSE x \in keys : TRUE
         IN f[k] + SumOver(f, keys \ {k})

\* C10: in every state fileCount, the length of files and the sum of the
\* language counters agree, and files holds no path twice.
C10_TalliesAgree ==
    /\ projectInfo.fileCount = Len(files)
    /\ projectInfo.fileCount =
          SumOver(projectInfo.languages, DOMAIN projectInfo.languages)
    /\ Cardinality(Range(files)) = Len(files)

\* C10 witness: suspended on the request of the second of two files of the
\* same language.
C10_Witness ==
    /\ pc = "awaitAnalysis"
    /\ inflight # {}
    /\ projectInfo.fileCount = 2
    /\ Cardinality(DOMAIN projectInfo.languages) = 1

====
